---- MODULE Spec2Model ----
(***************************************************************************)
(* Store-Monitoring: the metrics engine (app/services/report_generator.py) *)
(* and the report job workflow (app/api/endpoints.py).                     *)
(*                                                                         *)
(* Time.  An instant is an integer number of seconds of naive UTC time;    *)
(* instant 0 is a Monday 00:00:00, so that date d (= instant \div one day) *)
(* has datetime.weekday() = d % 7 with 0 = Monday.  A time of day is its   *)
(* number of seconds after midnight.  A timedelta is a number of seconds.  *)
(* Durations are kept as exact seconds; the code's float minutes and hours *)
(* are these seconds divided by 60 and 3600.                               *)
(*                                                                         *)
(* Time zones.  pytz zones are modelled by their standard-time UTC offset; *)
(* daylight-saving transitions are outside this model.                     *)
(***************************************************************************)
EXTENDS Integers, Sequences, FiniteSets, TLC

VARIABLES
    store_status,     \* table store_status: set of [store_id, timestamp_utc, status]
    business_hours,   \* table business_hours: set of [store_id, day_of_week, start_time_local, end_time_local]
    store_timezone,   \* table store_timezone: function store_id -> timezone_str (unique per store)
    reports,          \* table reports, committed rows: function id -> [status, file_path]
    files,            \* reports/ directory: function path -> [header, rows, closed]
    tasks,            \* background tasks: function report_id -> locals of generate_report_async
    faults,           \* how many exceptions have been raised so far
    metrics           \* what the latest metrics evaluation returned (metrics specification)

vars == <<store_status, business_hours, store_timezone, reports, files, tasks,
          faults, metrics>>

None == "None"

\* before the first metrics evaluation
NoMetrics == [op |-> "none"]

-----------------------------------------------------------------------------
(* datetime arithmetic *)

Seconds(n) == n
Minutes(n) == n * 60
Hours(n) == n * 3600
Days(n) == n * 86400
Weeks(n) == n * 604800

\* datetime.time(h, m, s)
dt_time(h, m, s) == Hours(h) + Minutes(m) + Seconds(s)

\* datetime.date() of a naive datetime, as a day number
DateOf(t) == t \div Days(1)

\* datetime.combine(date, time)
Combine(d, tod) == Days(d) + tod

\* date.weekday(): 0 = Monday
Weekday(d) == d % 7

MaxOf(a, b) == IF a >= b THEN a ELSE b
MinOf(a, b) == IF a <= b THEN a ELSE b

\* pytz.timezone(timezone_str): the zone's UTC offset
UtcOffset(timezone_str) ==
    CASE timezone_str = "America/Chicago" -> 0 - Hours(6)
      [] timezone_str = "UTC" -> 0
      [] timezone_str = "Asia/Kolkata" -> Hours(5) + Minutes(30)

\* convert_utc_to_local: the local wall-clock datetime of a UTC instant
convert_utc_to_local(utc_time, timezone_str) == utc_time + UtcOffset(timezone_str)

\* local_tz.localize(local_dt).astimezone(pytz.UTC).replace(tzinfo=None)
LocalToUtc(local_dt, timezone_str) == local_dt - UtcOffset(timezone_str)

-----------------------------------------------------------------------------
(* lookups *)

\* get_max_timestamp: func.max over the whole table (None on an empty table)
get_max_timestamp ==
    IF store_status = {} THEN None
    ELSE CHOOSE t \in {r.timestamp_utc : r \in store_status} :
            \A r \in store_status : r.timestamp_utc <= t

\* the distinct store ids of lines 241-242
store_ids == {r.store_id : r \in store_status}

\* get_store_timezone
get_store_timezone(store_id) ==
    IF store_id \in DOMAIN store_timezone THEN store_timezone[store_id]
    ELSE "America/Chicago"

\* get_business_hours with the full-day default applied per missing weekday
get_business_hours_per_day_default(store_id) ==
    LET rows == {bh \in business_hours : bh.store_id = store_id}
    IN  [i \in 0..6 |->
            IF \E r \in rows : r.day_of_week = i
            THEN LET bh == CHOOSE r \in rows : r.day_of_week = i
                 IN  <<bh.start_time_local, bh.end_time_local>>
            ELSE <<dt_time(0, 0, 0), dt_time(23, 59, 59)>>]

\* get_business_hours: dict day_of_week -> <<start, end>>
get_business_hours(store_id) ==
    LET rows == {bh \in business_hours : bh.store_id = store_id}
    IN  IF rows = {}
        THEN [i \in 0..6 |-> <<dt_time(0, 0, 0), dt_time(23, 59, 59)>>]
        ELSE [d \in {bh.day_of_week : bh \in rows} |->
                LET bh == CHOOSE r \in rows : r.day_of_week = d
                IN  <<bh.start_time_local, bh.end_time_local>>]

-----------------------------------------------------------------------------
(* interpolate_status_for_period *)

\* .order_by(StoreStatus.timestamp_utc).all() of a set of records
RECURSIVE OrderByTimestamp(_)
OrderByTimestamp(S) ==
    IF S = {} THEN <<>>
    ELSE LET r == CHOOSE x \in S : \A y \in S : x.timestamp_utc <= y.timestamp_utc
         IN  <<r>> \o OrderByTimestamp(S \ {r})

\* the query of lines 102-108
StatusRecords(store_id, start_time, end_time) ==
    OrderByTimestamp({r \in store_status :
        /\ r.store_id = store_id
        /\ r.timestamp_utc >= start_time
        /\ r.timestamp_utc <= end_time})

\* the for loop of lines 170-180 and the remainder of lines 183-187:
\* acc = <<total_uptime, total_downtime>>
RECURSIVE WalkRecords(_, _, _, _, _)
WalkRecords(day_records, last_timestamp, last_status, period_end, acc) ==
    IF day_records = <<>>
    THEN LET remaining_duration == period_end - last_timestamp
         IN  IF last_status = "active"
             THEN <<acc[1] + remaining_duration, acc[2]>>
             ELSE <<acc[1], acc[2] + remaining_duration>>
    ELSE LET record == Head(day_records)
             duration == record.timestamp_utc - last_timestamp
         IN  WalkRecords(Tail(day_records), record.timestamp_utc, record.status,
                         period_end,
                         IF last_status = "active"
                         THEN <<acc[1] + duration, acc[2]>>
                         ELSE <<acc[1], acc[2] + duration>>)

\* lines 122-151: the clipped business period of UTC date current_date,
\* <<period_start, period_end>>, or <<>> when the weekday is not listed
BusinessPeriod(current_date, start_time, end_time, timezone_str, bh) ==
    LET day_start == Combine(current_date, dt_time(0, 0, 0))
        local_day_start == convert_utc_to_local(day_start, timezone_str)
        day_of_week == Weekday(DateOf(local_day_start))
    IN  IF day_of_week \notin DOMAIN bh THEN <<>>
        ELSE LET bh_start == bh[day_of_week][1]
                 bh_end == bh[day_of_week][2]
                 bh_start_dt == Combine(DateOf(local_day_start), bh_start)
                 bh_end_dt == Combine(DateOf(local_day_start), bh_end)
                                 + (IF bh_start > bh_end THEN Days(1) ELSE 0)
                 bh_start_utc == LocalToUtc(bh_start_dt, timezone_str)
                 bh_end_utc == LocalToUtc(bh_end_dt, timezone_str)
             IN  <<MaxOf(start_time, bh_start_utc), MinOf(end_time, bh_end_utc)>>

\* one pass of the while loop of lines 121-189
DayStep(current_date, status_records, start_time, end_time, timezone_str, bh, acc) ==
    LET p == BusinessPeriod(current_date, start_time, end_time, timezone_str, bh)
    IN  IF p = <<>> THEN acc
        ELSE IF p[1] >= p[2] THEN acc
        ELSE LET day_records == SelectSeq(status_records,
                    LAMBDA r : p[1] <= r.timestamp_utc /\ r.timestamp_utc <= p[2])
             IN  IF day_records = <<>>
                 THEN <<acc[1], acc[2] + (p[2] - p[1])>>
                 ELSE WalkRecords(day_records, p[1], "inactive", p[2], acc)

RECURSIVE DayLoop(_, _, _, _, _, _, _, _)
DayLoop(current_date, end_date, status_records, start_time, end_time, timezone_str, bh, acc) ==
    IF current_date > end_date THEN acc
    ELSE DayLoop(current_date + 1, end_date, status_records, start_time, end_time,
                 timezone_str, bh,
                 DayStep(current_date, status_records, start_time, end_time,
                         timezone_str, bh, acc))

\* <<uptime, downtime>> in seconds (the code returns them as hours)
interpolate_status_for_period(store_id, start_time, end_time, timezone_str, bh) ==
    LET status_records == StatusRecords(store_id, start_time, end_time)
    IN  IF status_records = <<>> THEN <<0, 0>>
        ELSE DayLoop(DateOf(start_time), DateOf(end_time), status_records,
                     start_time, end_time, timezone_str, bh, <<0, 0>>)

-----------------------------------------------------------------------------
(* calculate_store_metrics *)

\* round-half-even of n / d for d > 0
RoundHalfEven(n, d) ==
    LET q == n \div d
        r == n % d
    IN  IF 2 * r < d THEN q
        ELSE IF 2 * r > d THEN q + 1
        ELSE IF q % 2 = 0 THEN q ELSE q + 1

\* round(seconds / unit, 2), as a whole number of hundredths (6000 is 60.00).
\* No duration of this model falls on a rounding tie.
Round2(seconds, unit) == RoundHalfEven(seconds * 100, unit)

calculate_store_metrics(store_id, current_time) ==
    LET timezone_str == get_store_timezone(store_id)
        bh == get_business_hours(store_id)
        one_hour_ago == current_time - Hours(1)
        one_day_ago == current_time - Days(1)
        one_week_ago == current_time - Weeks(1)
        h == interpolate_status_for_period(store_id, one_hour_ago, current_time, timezone_str, bh)
        d == interpolate_status_for_period(store_id, one_day_ago, current_time, timezone_str, bh)
        w == interpolate_status_for_period(store_id, one_week_ago, current_time, timezone_str, bh)
    IN  [store_id |-> store_id,
         uptime_last_hour |-> Round2(h[1], Minutes(1)),
         uptime_last_day |-> Round2(d[1], Hours(1)),
         uptime_last_week |-> Round2(w[1], Hours(1)),
         downtime_last_hour |-> Round2(h[2], Minutes(1)),
         downtime_last_day |-> Round2(d[2], Hours(1)),
         downtime_last_week |-> Round2(w[2], Hours(1))]

-----------------------------------------------------------------------------
(* The report job workflow.                                                 *)
(*                                                                          *)
(* reports holds the committed rows of the reports table.  Each background  *)
(* task works on its own Session: the Report object it loaded (report), the *)
(* attributes it has set and not yet committed (dirty), and whether the     *)
(* Session's transaction is still usable.  Session.commit() writes the      *)
(* dirty attributes in one transaction; when it raises, the transaction is  *)
(* rolled back, the pending changes are discarded and the Session refuses   *)
(* further commits until rollback() is called, which this code never does.  *)
(*                                                                          *)
(* A step that can raise (a query, a file operation, a commit) either       *)
(* succeeds or raises; the tables of observations are read-only, so the     *)
(* reads of one job are taken in one step.  Steps of different tasks and    *)
(* get_report calls interleave freely, which covers a deployment with       *)
(* several worker processes as well as the single event loop of main.py.    *)
(* A get_report call may fall between any two steps, so what holds of       *)
(* get_report(id) in every reachable state holds of every call.             *)

MaxJobs == 2

\* at most this many exceptions are raised in one run
MaxFaults == 2

\* uuid.uuid4(): the ids are taken in order, each once
ReportIds == 1 .. MaxJobs

\* one file name for every job
csv_file_path_shared(report_id) == <<"reports", 0>>

\* os.path.join(self.reports_dir, f"{report_id}.csv")
csv_file_path(report_id) == <<"reports", report_id>>

NoFile == [exists |-> FALSE]

\* a Report row as constructed at line 19 of endpoints.py
NewReport == [status |-> "Running", file_path |-> None]

\* the locals of generate_report_async before its first statement
NewTask ==
    [pc |-> "start",
     bound |-> FALSE,           \* whether the local variable report is bound
     report |-> [status |-> None, file_path |-> None],
     dirty |-> {},              \* attributes of report set since the last commit
     session |-> "active",
     report_data |-> <<>>,
     skipped |-> {},            \* history: the stores whose metrics raised
     job_error |-> FALSE]       \* history: another exception was raised

Triggered == DOMAIN reports

\* trigger_report scheduling the task without db.add and db.commit
TriggerReportNoCommit ==
    /\ Cardinality(Triggered) < MaxJobs
    /\ LET report_id == Cardinality(Triggered) + 1
       IN  tasks' = [i \in DOMAIN tasks \cup {report_id} |->
                        IF i = report_id THEN NewTask ELSE tasks[i]]
    /\ UNCHANGED <<store_status, business_hours, store_timezone, reports, files,
                   faults, metrics>>

\* trigger_report
TriggerReport ==
    /\ Cardinality(Triggered) < MaxJobs
    /\ LET report_id == Cardinality(Triggered) + 1
       IN  /\ reports' = [i \in Triggered \cup {report_id} |->
                            IF i = report_id THEN NewReport ELSE reports[i]]
           /\ tasks' = [i \in Triggered \cup {report_id} |->
                            IF i = report_id THEN NewTask ELSE tasks[i]]
    /\ UNCHANGED <<store_status, business_hours, store_timezone, files,
                   faults, metrics>>

\* get_report answering Running for an id it has no record of
get_report_unknown_running(report_id) ==
    IF report_id \notin Triggered \/ reports[report_id].status = "Running"
    THEN [report_id |-> report_id, outcome |-> "Running"]
    ELSE IF reports[report_id].status = "Complete"
    THEN IF reports[report_id].file_path # None
            /\ files[reports[report_id].file_path].exists
         THEN [report_id |-> report_id, outcome |-> "FileResponse",
               path |-> reports[report_id].file_path,
               content |-> files[reports[report_id].file_path]]
         ELSE [report_id |-> report_id, outcome |-> "500 Report file not found"]
    ELSE [report_id |-> report_id, outcome |-> "500 Report generation failed"]

\* get_report serving the file at the job's path whenever it is on disk,
\* before looking at the stored status
get_report_file_first(report_id) ==
    IF report_id \notin Triggered
    THEN [report_id |-> report_id, outcome |-> "404 Report not found"]
    ELSE IF files[csv_file_path(report_id)].exists
    THEN [report_id |-> report_id, outcome |-> "FileResponse",
          path |-> csv_file_path(report_id),
          content |-> files[csv_file_path(report_id)]]
    ELSE IF reports[report_id].status = "Running"
    THEN [report_id |-> report_id, outcome |-> "Running"]
    ELSE [report_id |-> report_id, outcome |-> "500 Report generation failed"]

\* get_report: what the handler returns for report_id
get_report(report_id) ==
    IF report_id \notin Triggered
    THEN [report_id |-> report_id, outcome |-> "404 Report not found"]
    ELSE LET report == reports[report_id]
         IN  IF report.status = "Running"
             THEN [report_id |-> report_id, outcome |-> "Running"]
             ELSE IF report.status = "Complete"
             THEN IF report.file_path # None /\ files[report.file_path].exists
                  THEN [report_id |-> report_id, outcome |-> "FileResponse",
                        path |-> report.file_path,
                        content |-> files[report.file_path]]
                  ELSE [report_id |-> report_id,
                        outcome |-> "500 Report file not found"]
             ELSE [report_id |-> report_id,
                   outcome |-> "500 Report generation failed"]

\* a get_report call: the handler reads and writes nothing; what it returns
\* to its caller is get_report(report_id) of the state it is called in
GetReport(report_id) ==
    /\ get_report(report_id).report_id = report_id
    /\ UNCHANGED <<store_status, business_hours, store_timezone, reports, files,
                   tasks, faults, metrics>>

At(report_id, pc) == report_id \in DOMAIN tasks /\ tasks[report_id].pc = pc

\* an exception raised inside the try block, outside the per-store try:
\* control moves to line 272
Raise(report_id, task) ==
    /\ faults < MaxFaults
    /\ faults' = faults + 1
    /\ tasks' = [tasks EXCEPT ![report_id] =
                    [task EXCEPT !.pc = "except", !.job_error = TRUE]]

\* lines 229-235: open the Session and look the report up
LookupReport(report_id) ==
    /\ At(report_id, "start")
    /\ \/ /\ IF report_id \in Triggered
             THEN tasks' = [tasks EXCEPT ![report_id].pc = "read",
                                         ![report_id].bound = TRUE,
                                         ![report_id].report = reports[report_id]]
             ELSE tasks' = [tasks EXCEPT ![report_id].pc = "finally"]
          /\ UNCHANGED faults
       \/ Raise(report_id, tasks[report_id])
    /\ UNCHANGED <<store_status, business_hours, store_timezone, reports, files,
                   metrics>>

\* .all() of the distinct store ids: a list in some fixed order
RECURSIVE Listed(_)
Listed(S) ==
    IF S = {} THEN <<>>
    ELSE LET x == CHOOSE a \in S : TRUE
         IN  <<x>> \o Listed(S \ {x})

\* lines 245-252: the rows of the stores whose metrics did not raise
ReportData(ids, failing, current_time) ==
    [i \in 1 .. Len(SelectSeq(ids, LAMBDA x : x \notin failing)) |->
        calculate_store_metrics(SelectSeq(ids, LAMBDA x : x \notin failing)[i],
                                current_time)]

\* the store loop with a store's exception leaving the loop
AfterStoresAbort(failing) == IF failing = {} THEN "open" ELSE "except"

\* the store loop followed at once by the commit of line 270
AfterStoresCommit(failing) == "commit"

\* lines 246-254: where control goes after the store loop when the metrics of
\* the stores in failing raised: each is caught at line 250, the loop goes on
AfterStores(failing) == "open"

\* lines 237-252: the reference time, the store ids and the per-store loop;
\* failing is the set of stores for which calculate_store_metrics raises
ComputeReportData(report_id) ==
    /\ At(report_id, "read")
    /\ \/ \E failing \in SUBSET store_ids :
            /\ faults + Cardinality(failing) <= MaxFaults
            /\ faults' = faults + Cardinality(failing)
            /\ tasks' = [tasks EXCEPT
                           ![report_id].pc = AfterStores(failing),
                           ![report_id].skipped = failing,
                           ![report_id].report_data =
                               ReportData(Listed(store_ids), failing, get_max_timestamp)]
       \/ Raise(report_id, tasks[report_id])
    /\ UNCHANGED <<store_status, business_hours, store_timezone, reports, files,
                   metrics>>

\* line 257: open(csv_file_path, 'w') creates or truncates the file
OpenFile(report_id) ==
    /\ At(report_id, "open")
    /\ \/ /\ files' = [files EXCEPT ![csv_file_path(report_id)] =
                          [exists |-> TRUE, header |-> FALSE, rows |-> <<>>,
                           open |-> TRUE]]
          /\ tasks' = [tasks EXCEPT ![report_id].pc = "write"]
          /\ UNCHANGED faults
       \/ /\ Raise(report_id, tasks[report_id])
          /\ UNCHANGED files
    /\ UNCHANGED <<store_status, business_hours, store_timezone, reports,
                   metrics>>

\* lines 263-265: writeheader and writerows; when a write raises, the with
\* block closes the file with whatever had been written
WriteFile(report_id) ==
    /\ At(report_id, "write")
    /\ LET path == csv_file_path(report_id)
           data == tasks[report_id].report_data
       IN  \/ /\ files' = [files EXCEPT ![path].header = TRUE, ![path].rows = data]
              /\ tasks' = [tasks EXCEPT ![report_id].pc = "close"]
              /\ UNCHANGED faults
           \/ /\ files' = [files EXCEPT ![path].open = FALSE]
              /\ Raise(report_id, tasks[report_id])
           \/ \E n \in 0 .. Len(data) - 1 :
                 /\ files' = [files EXCEPT ![path].header = TRUE,
                                           ![path].rows = SubSeq(data, 1, n),
                                           ![path].open = FALSE]
                 /\ Raise(report_id, tasks[report_id])
    /\ UNCHANGED <<store_status, business_hours, store_timezone, reports,
                   metrics>>

\* the end of the with block of line 257: the file is closed
CloseFile(report_id) ==
    /\ At(report_id, "close")
    /\ files' = [files EXCEPT ![csv_file_path(report_id)].open = FALSE]
    /\ tasks' = [tasks EXCEPT ![report_id].pc = "commit"]
    /\ UNCHANGED <<store_status, business_hours, store_timezone, reports,
                   faults, metrics>>

\* attribute assignments on the loaded Report object
SetAttrs(task, attrs) ==
    [task EXCEPT !.report = [a \in DOMAIN task.report |->
                                IF a \in DOMAIN attrs THEN attrs[a]
                                ELSE task.report[a]],
                 !.dirty = task.dirty \cup DOMAIN attrs]

\* Session.commit() succeeding: the dirty attributes are written in one
\* transaction
Committed(report_id, task) ==
    [reports EXCEPT ![report_id] =
        [a \in DOMAIN reports[report_id] |->
            IF a \in task.dirty THEN task.report[a] ELSE reports[report_id][a]]]

\* Session.commit() raising: nothing is written, the pending changes are
\* discarded and the Session is left rolled back
RolledBack(report_id, task) ==
    [task EXCEPT !.session = "rolled back", !.dirty = {},
                 !.report = reports[report_id]]

\* lines 268-269 with the artifact reference left unset
CompleteAttrsNoPath(report_id) == [status |-> "Complete"]

\* lines 268-269: the attributes set before the commit of line 270
CompleteAttrs(report_id) ==
    [status |-> "Complete", file_path |-> csv_file_path(report_id)]

\* the commit of line 270 followed by a statement of the try block that raises
AfterCompleteRaises == "except"

\* where control goes after the commit of line 270
AfterComplete == "finally"

\* lines 268-270
CommitComplete(report_id) ==
    /\ At(report_id, "commit")
    /\ LET task == SetAttrs(tasks[report_id], CompleteAttrs(report_id))
       IN  \/ /\ reports' = Committed(report_id, task)
              /\ tasks' = [tasks EXCEPT ![report_id] =
                              [task EXCEPT !.pc = AfterComplete, !.dirty = {}]]
              /\ UNCHANGED faults
           \/ /\ Raise(report_id, RolledBack(report_id, task))
              /\ UNCHANGED reports
    /\ UNCHANGED <<store_status, business_hours, store_timezone, files,
                   metrics>>

\* line 274 also attaching the file written so far
FailedAttrsWithPath(report_id) ==
    [status |-> "Failed", file_path |-> csv_file_path(report_id)]

\* line 274: the attributes set by the handler
FailedAttrs(report_id) == [status |-> "Failed"]

\* lines 272-275.  With report unbound, line 274 raises UnboundLocalError;
\* with the Session rolled back, the commit of line 275 raises; otherwise the
\* commit writes Failed, or raises.  An exception raised here leaves the task.
ExceptHandler(report_id) ==
    /\ At(report_id, "except")
    /\ IF tasks[report_id].bound /\ tasks[report_id].session = "active"
       THEN LET task == SetAttrs(tasks[report_id], FailedAttrs(report_id))
            IN  \/ /\ reports' = Committed(report_id, task)
                   /\ tasks' = [tasks EXCEPT ![report_id] =
                                   [task EXCEPT !.pc = "finally", !.dirty = {}]]
                   /\ UNCHANGED faults
                \/ /\ faults < MaxFaults
                   /\ faults' = faults + 1
                   /\ tasks' = [tasks EXCEPT ![report_id] =
                                   [RolledBack(report_id, task) EXCEPT
                                       !.pc = "finally"]]
                   /\ UNCHANGED reports
       ELSE /\ tasks' = [tasks EXCEPT ![report_id].pc = "finally"]
            /\ UNCHANGED <<reports, faults>>
    /\ UNCHANGED <<store_status, business_hours, store_timezone, files,
                   metrics>>

\* lines 276-277: db.close(); the task ends
Finally(report_id) ==
    /\ At(report_id, "finally")
    /\ tasks' = [tasks EXCEPT ![report_id].pc = "done"]
    /\ UNCHANGED <<store_status, business_hours, store_timezone, reports, files,
                   faults, metrics>>

\* the tables as ingestion left them: three stores, the latest observation
\* (the reference time) on a Tuesday at 12:00 UTC
Init ==
    /\ store_status =
          {[store_id |-> "s1", timestamp_utc |-> Combine(15, dt_time(12, 0, 0)),
            status |-> "active"],
           [store_id |-> "s1", timestamp_utc |-> Combine(15, dt_time(11, 30, 0)),
            status |-> "inactive"],
           [store_id |-> "s2", timestamp_utc |-> Combine(15, dt_time(7, 0, 0)),
            status |-> "active"],
           [store_id |-> "s3", timestamp_utc |-> Combine(14, dt_time(23, 0, 0)),
            status |-> "active"]}
    /\ business_hours =
          {[store_id |-> "s2", day_of_week |-> 1,
            start_time_local |-> dt_time(9, 0, 0),
            end_time_local |-> dt_time(17, 0, 0)]}
    /\ store_timezone = [s \in {"s1", "s2"} |-> "UTC"]
    /\ reports = <<>>
    /\ files = [p \in {csv_file_path(i) : i \in ReportIds} |-> NoFile]
    /\ tasks = <<>>
    /\ faults = 0
    /\ metrics = NoMetrics

Next ==
    \/ TriggerReport
    \/ \E report_id \in ReportIds :
          \/ GetReport(report_id)
          \/ LookupReport(report_id)
          \/ ComputeReportData(report_id)
          \/ OpenFile(report_id)
          \/ WriteFile(report_id)
          \/ CloseFile(report_id)
          \/ CommitComplete(report_id)
          \/ ExceptHandler(report_id)
          \/ Finally(report_id)

Spec == Init /\ [][Next]_vars

-----------------------------------------------------------------------------
(* The metrics specification: the tables hold one store under study, "s1",  *)
(* and a second store, "s0", whose latest observation fixes the reference   *)
(* time (get_max_timestamp is taken over all stores).  The tables are       *)
(* written at startup by ingestion and read-only afterwards.                *)

MaxObs == 2

Statuses == {"active", "inactive"}

\* reference times: a Tuesday (date 15) at 00:30, 01:00, 12:00 and 18:30 UTC
RefTimes == {Combine(15, dt_time(0, 30, 0)), Combine(15, dt_time(1, 0, 0)),
             Combine(15, dt_time(12, 0, 0)), Combine(15, dt_time(18, 30, 0))}

\* how long before the reference time the observations of "s1" are made
ObsAges == {0, Minutes(30), Hours(5), Hours(20), Days(3), Days(8)}

\* business-hour windows of a row: daytime, overnight, full day
WindowChoices == {<<dt_time(9, 0, 0), dt_time(17, 0, 0)>>,
                  <<dt_time(22, 0, 0), dt_time(2, 0, 0)>>,
                  <<dt_time(0, 0, 0), dt_time(23, 59, 59)>>}

\* weekdays a row may be stored for: Monday, Tuesday
ListedDays == {0, 1}

ZoneRows == {"UTC", "Asia/Kolkata"}

ObservationSets(t) ==
    {S \in SUBSET [store_id : {"s1"}, timestamp_utc : {t - a : a \in ObsAges},
                   status : Statuses] :
        /\ Cardinality(S) <= MaxObs
        /\ \A x, y \in S : x.timestamp_utc = y.timestamp_utc => x = y}

BusinessHourSets ==
    UNION {{{[store_id |-> "s1", day_of_week |-> d,
              start_time_local |-> f[d][1], end_time_local |-> f[d][2]] : d \in D} :
            f \in [D -> WindowChoices]} : D \in SUBSET ListedDays}

TimezoneTables == {<<>>} \cup {[s \in {"s1"} |-> z] : z \in ZoneRows}

MetricsInit ==
    /\ \E t \in RefTimes : \E obs \in ObservationSets(t) :
          store_status = obs \cup
              {[store_id |-> "s0", timestamp_utc |-> t, status |-> "active"]}
    /\ business_hours \in BusinessHourSets
    /\ store_timezone \in TimezoneTables
    /\ reports = <<>>
    /\ files = <<>>
    /\ tasks = <<>>
    /\ faults = 0
    /\ metrics = NoMetrics

TrailingWindows == {Hours(1), Days(1), Weeks(1)}

\* one call of interpolate_status_for_period made by calculate_store_metrics
Interpolate(window) ==
    /\ metrics = NoMetrics
    /\ "s1" \in store_ids
    /\ LET current_time == get_max_timestamp
           out == interpolate_status_for_period("s1", current_time - window,
                        current_time, get_store_timezone("s1"),
                        get_business_hours("s1"))
       IN  metrics' = [op |-> "interpolate", start_time |-> current_time - window,
                       end_time |-> current_time, uptime |-> out[1],
                       downtime |-> out[2]]
    /\ UNCHANGED <<store_status, business_hours, store_timezone, reports, files,
                   tasks, faults>>

CalculateMetrics ==
    /\ metrics = NoMetrics
    /\ "s1" \in store_ids
    /\ metrics' = [op |-> "calculate_store_metrics",
                   row |-> calculate_store_metrics("s1", get_max_timestamp)]
    /\ UNCHANGED <<store_status, business_hours, store_timezone, reports, files,
                   tasks, faults>>

MetricsNext ==
    \/ \E window \in TrailingWindows : Interpolate(window)
    \/ CalculateMetrics

MetricsSpec == MetricsInit /\ [][MetricsNext]_vars

-----------------------------------------------------------------------------
(* Reference definitions for the metrics claims, written from the stored   *)
(* rows and the local calendar, not from the engine's loop.                 *)

StoreOffset(store_id) ==
    UtcOffset(IF store_id \in DOMAIN store_timezone THEN store_timezone[store_id]
              ELSE "America/Chicago")

StoredWindows(store_id) == {bh \in business_hours : bh.store_id = store_id}

\* the business window of local date d as a UTC interval <<from, to>>;
\* <<>> when the location is closed that day
WindowOfLocalDate(store_id, d) ==
    LET rows == StoredWindows(store_id)
        listed == {bh \in rows : bh.day_of_week = Weekday(d)}
        off == StoreOffset(store_id)
    IN  IF rows = {} THEN <<Days(d) - off, Days(d) + dt_time(23, 59, 59) - off>>
        ELSE IF listed = {} THEN <<>>
        ELSE LET bh == CHOOSE r \in listed : TRUE
                 s == bh.start_time_local
                 e == bh.end_time_local
             IN  <<Days(d) + s - off,
                   Days(d) + e + (IF s > e THEN Days(1) ELSE 0) - off>>

\* the local dates whose window can meet [start_time, end_time]
LocalDates(store_id, start_time, end_time) ==
    (DateOf(start_time + StoreOffset(store_id)) - 1)
        .. DateOf(end_time + StoreOffset(store_id))

\* the windows met by the range, clipped to it
ClippedWindows(store_id, start_time, end_time) ==
    {<<MaxOf(start_time, w[1]), MinOf(end_time, w[2])>> :
        w \in {x \in {WindowOfLocalDate(store_id, d) :
                        d \in LocalDates(store_id, start_time, end_time)} :
                  x # <<>> /\ MaxOf(start_time, x[1]) < MinOf(end_time, x[2])}}

\* the window occurrences lying wholly inside the range
WindowsInside(store_id, start_time, end_time) ==
    {w \in {WindowOfLocalDate(store_id, d) :
                d \in LocalDates(store_id, start_time, end_time)} :
        w # <<>> /\ start_time <= w[1] /\ w[2] <= end_time}

RECURSIVE TotalLength(_)
TotalLength(intervals) ==
    IF intervals = {} THEN 0
    ELSE LET i == CHOOSE x \in intervals : TRUE
         IN  (i[2] - i[1]) + TotalLength(intervals \ {i})

RECURSIVE CoveredLength(_, _)
CoveredLength(points, intervals) ==
    IF Cardinality(points) <= 1 THEN 0
    ELSE LET p == CHOOSE x \in points : \A y \in points : x <= y
             rest == points \ {p}
             q == CHOOSE x \in rest : \A y \in rest : x <= y
         IN  (IF \E i \in intervals : i[1] <= p /\ q <= i[2] THEN q - p ELSE 0)
                + CoveredLength(rest, intervals)

\* the length of the business time inside [start_time, end_time]
BusinessSeconds(store_id, start_time, end_time) ==
    LET intervals == ClippedWindows(store_id, start_time, end_time)
    IN  CoveredLength({i[1] : i \in intervals} \cup {i[2] : i \in intervals}, intervals)

ObservationsIn(store_id, start_time, end_time) ==
    {r \in store_status : /\ r.store_id = store_id
                          /\ start_time <= r.timestamp_utc
                          /\ r.timestamp_utc <= end_time}

\* the time of [start_time, end_time] that carried-forward attribution gives
\* to "active": from each active observation to the next observation or the end
ActiveSeconds(store_id, start_time, end_time) ==
    LET obs == ObservationsIn(store_id, start_time, end_time)
        Until(o) == LET later == {x.timestamp_utc : x \in obs} \cap
                                    ((o.timestamp_utc + 1) .. end_time)
                    IN  IF later = {} THEN end_time
                        ELSE CHOOSE t \in later : \A u \in later : t <= u
    IN  TotalLength({<<o.timestamp_utc, Until(o)>> :
                        o \in {x \in obs : x.status = "active"}})

InsideOneWindow(store_id, start_time, end_time) ==
    \E d \in LocalDates(store_id, start_time, end_time) :
        LET w == WindowOfLocalDate(store_id, d)
        IN  w # <<>> /\ w[1] <= start_time /\ end_time <= w[2]

Interpolated == metrics.op = "interpolate"
Calculated == metrics.op = "calculate_store_metrics"

-----------------------------------------------------------------------------
(* Claims about the metrics engine *)

\* C6: conservation of business time: the uptime plus the downtime returned by
\* interpolate_status_for_period equals the length of the business-hour
\* windows intersected with the query range.
C6_Conservation ==
    Interpolated =>
        metrics.uptime + metrics.downtime
            = BusinessSeconds("s1", metrics.start_time, metrics.end_time)

\* C7: no-data rule: with no observation inside the query range the whole
\* business time of the range is downtime and none is uptime; with no
\* business-hour rows and no observations in the trailing windows the row
\* reports downtime 60.00 minutes, 24.00 hours and 168.00 hours.
C7_NoDataIsDowntime ==
    /\ (Interpolated /\ ObservationsIn("s1", metrics.start_time, metrics.end_time) = {})
          => /\ metrics.uptime = 0
             /\ metrics.downtime
                  = BusinessSeconds("s1", metrics.start_time, metrics.end_time)
    /\ (/\ Calculated
        /\ StoredWindows("s1") = {}
        /\ ObservationsIn("s1", get_max_timestamp - Weeks(1), get_max_timestamp) = {})
          => /\ metrics.row.uptime_last_hour = 0
             /\ metrics.row.uptime_last_day = 0
             /\ metrics.row.uptime_last_week = 0
             /\ metrics.row.downtime_last_hour = 6000
             /\ metrics.row.downtime_last_day = 2400
             /\ metrics.row.downtime_last_week = 16800

\* C8: carried-forward attribution: for a query range inside one business
\* window that contains observations, the time before the first observation
\* is downtime and the time from each observation on is counted under that
\* observation's status; a single active observation 30 minutes before the
\* reference time gives uptime_last_hour = downtime_last_hour = 30.00.
C8_CarriedForward ==
    /\ (/\ Interpolated
        /\ InsideOneWindow("s1", metrics.start_time, metrics.end_time)
        /\ ObservationsIn("s1", metrics.start_time, metrics.end_time) # {})
          => /\ metrics.uptime
                  = ActiveSeconds("s1", metrics.start_time, metrics.end_time)
             /\ metrics.downtime
                  = (metrics.end_time - metrics.start_time)
                      - ActiveSeconds("s1", metrics.start_time, metrics.end_time)
    /\ (/\ Calculated
        /\ InsideOneWindow("s1", get_max_timestamp - Hours(1), get_max_timestamp)
        /\ ObservationsIn("s1", get_max_timestamp - Hours(1), get_max_timestamp)
            = {[store_id |-> "s1", timestamp_utc |-> get_max_timestamp - Minutes(30),
                status |-> "active"]})
          => /\ metrics.row.uptime_last_hour = 3000
             /\ metrics.row.downtime_last_hour = 3000

\* C10: overnight windows: for a location whose only stored window is an
\* overnight one, every occurrence of the window lying inside the query range
\* contributes its full length to uptime plus downtime.
C10_OvernightFullLength ==
    (/\ Interpolated
     /\ Cardinality(StoredWindows("s1")) = 1
     /\ \A bh \in StoredWindows("s1") : bh.start_time_local > bh.end_time_local)
        => metrics.uptime + metrics.downtime
              >= TotalLength(WindowsInside("s1", metrics.start_time, metrics.end_time))

\* C9: business-hours fallback policy: a location with no stored rows is open
\* the full day on all seven weekdays; a location with rows for some weekdays
\* is closed on every unlisted weekday, so the time counted for a range never
\* exceeds the time of the listed weekdays' windows (each taken on its local
\* date, overnight windows running into the next day) inside the range.
C9_FallbackPolicy ==
    /\ StoredWindows("s1") = {} =>
          get_business_hours("s1")
              = [i \in 0..6 |-> <<dt_time(0, 0, 0), dt_time(23, 59, 59)>>]
    /\ StoredWindows("s1") # {} =>
          DOMAIN get_business_hours("s1")
              = {bh.day_of_week : bh \in StoredWindows("s1")}
    /\ Interpolated =>
          metrics.uptime + metrics.downtime
              <= TotalLength(ClippedWindows("s1", metrics.start_time, metrics.end_time))

\* a week's range of a location with rows for some weekdays only, with time counted
C9_Witness ==
    /\ Interpolated
    /\ StoredWindows("s1") # {}
    /\ {bh.day_of_week : bh \in StoredWindows("s1")} # 0..6
    /\ metrics.end_time - metrics.start_time = Weeks(1)
    /\ metrics.uptime + metrics.downtime > 0

-----------------------------------------------------------------------------
(* Claims about the report job workflow *)

JobStates == {"Running", "Complete", "Failed"}

\* the artifact of report_id is on disk, closed, with its header and one row
\* for each row the task computed
ArtifactWritten(report_id) ==
    LET f == files[csv_file_path(report_id)]
    IN  /\ f.exists
        /\ ~f.open
        /\ f.header
        /\ f.rows = tasks[report_id].report_data

\* C1: a job's stored state is Running, Complete or Failed, and once it is
\* Complete or Failed no step changes it.
C1_StateMonotonic ==
    [][/\ \A id \in DOMAIN reports' : reports'[id].status \in JobStates
       /\ \A id \in DOMAIN reports :
            reports[id].status \in {"Complete", "Failed"}
                => /\ id \in DOMAIN reports'
                   /\ reports'[id].status = reports[id].status]_vars

\* one job stored Complete and one stored Failed, both tasks ended
C1_Witness ==
    \E a, b \in Triggered :
        /\ reports[a].status = "Complete" /\ tasks[a].pc = "done"
        /\ reports[b].status = "Failed" /\ tasks[b].pc = "done"

\* C2: whenever a job is stored Complete its artifact reference is set and the
\* artifact is completely written, so a get_report call that finds Complete
\* returns the whole artifact, never a partial one and never a missing file.
C2_CompleteHasArtifact ==
    \A id \in Triggered :
        /\ reports[id].status = "Complete" =>
              /\ reports[id].file_path = csv_file_path(id)
              /\ ArtifactWritten(id)
              /\ get_report(id).outcome = "FileResponse"
        /\ get_report(id).outcome = "FileResponse" =>
              /\ get_report(id).path = csv_file_path(id)
              /\ get_report(id).content = files[csv_file_path(id)]
              /\ ArtifactWritten(id)

\* a get_report call returns the artifact of a job while the other job's file
\* is open and partly written
C2_Witness ==
    \E a, b \in Triggered :
        /\ get_report(a).outcome = "FileResponse"
        /\ Len(get_report(a).content.rows) > 0
        /\ files[csv_file_path(b)].exists /\ files[csv_file_path(b)].open
        /\ get_report(b).outcome = "Running"

\* C3: every job leaves Running: when its generation task has ended, the job
\* is Complete, or Failed if an exception escaped the per-store isolation.
C3_EveryJobLeavesRunning ==
    \A id \in DOMAIN tasks :
        tasks[id].pc = "done" =>
            /\ reports[id].status # "Running"
            /\ tasks[id].job_error => reports[id].status = "Failed"
            /\ ~tasks[id].job_error => reports[id].status = "Complete"

\* C4: a Failed job has no artifact reference and get_report returns no
\* artifact for it; an artifact reference is stored only on a Complete job.
C4_FailedHasNoArtifact ==
    \A id \in Triggered :
        /\ reports[id].status = "Failed" =>
              /\ reports[id].file_path = None
              /\ get_report(id).outcome = "500 Report generation failed"
        /\ reports[id].file_path # None => reports[id].status = "Complete"

\* a Failed job whose partly written file is on disk
C4_Witness ==
    \E id \in Triggered :
        /\ reports[id].status = "Failed"
        /\ tasks[id].pc = "done"
        /\ files[csv_file_path(id)].exists
        /\ files[csv_file_path(id)].header

StoresOf(rows) == {rows[i].store_id : i \in 1 .. Len(rows)}

\* C5: per-store failure isolation: the stores whose metrics raise are
\* skipped; if nothing else raises the job ends Complete, and its artifact
\* holds exactly one row for each store whose metrics did not raise.
C5_FailureIsolation ==
    \A id \in DOMAIN tasks :
        /\ tasks[id].pc \in {"open", "write", "close", "commit"} =>
              /\ StoresOf(tasks[id].report_data) = store_ids \ tasks[id].skipped
              /\ Len(tasks[id].report_data)
                    = Cardinality(store_ids \ tasks[id].skipped)
        /\ (tasks[id].pc = "done" /\ ~tasks[id].job_error) =>
              /\ reports[id].status = "Complete"
              /\ get_report(id).outcome = "FileResponse"
              /\ StoresOf(get_report(id).content.rows)
                    = store_ids \ tasks[id].skipped
              /\ Len(get_report(id).content.rows)
                    = Cardinality(store_ids \ tasks[id].skipped)

\* one store of three raised: the job is Complete with two rows
C5_Witness ==
    \E id \in DOMAIN tasks :
        /\ tasks[id].pc = "done"
        /\ Cardinality(store_ids) = 3
        /\ Cardinality(tasks[id].skipped) = 1
        /\ reports[id].status = "Complete"
        /\ get_report(id).outcome = "FileResponse"
        /\ Len(get_report(id).content.rows) = 2

-----------------------------------------------------------------------------
(* Claims about status queries, triggering and concurrent jobs *)

\* a step of the generation task of report_id that writes a job record or a file
GenerationWrite(report_id) ==
    \/ OpenFile(report_id)
    \/ WriteFile(report_id)
    \/ CloseFile(report_id)
    \/ CommitComplete(report_id)
    \/ ExceptHandler(report_id)

\* C11: get_report is a pure read: the job records and the files change only
\* in steps of trigger_report and of the generation tasks, never in a query;
\* a query of a job stored Running returns the Running signal and nothing
\* else; what a query of a job stored Complete returns (the artifact's path
\* and content) is the same after every step.
C11_QueryIsPureRead ==
    /\ [](\A id \in Triggered :
            reports[id].status = "Running" =>
                get_report(id) = [report_id |-> id, outcome |-> "Running"])
    /\ [][/\ (reports' # reports \/ files' # files) =>
                (TriggerReport \/ \E id \in ReportIds : GenerationWrite(id))
          /\ \A id \in Triggered :
                reports[id].status = "Complete" =>
                    /\ get_report(id).outcome = "FileResponse"
                    /\ get_report(id)' = get_report(id)]_vars

\* one job is Complete and served, the other is still stored Running with its
\* file completely written and closed
C11_Witness ==
    \E a, b \in Triggered :
        /\ reports[a].status = "Complete"
        /\ get_report(a).outcome = "FileResponse"
        /\ tasks[b].pc = "commit"
        /\ files[csv_file_path(b)].exists
        /\ get_report(b).outcome = "Running"

\* C12: trigger_report stores the record Running before the generation task
\* of that id exists: tasks exist exactly for the stored records, one each; at
\* the step that returns the id the job is Running and its task has not
\* started; a task that has started never starts again; and the task's lookup
\* of its record (line 233) finds it unless the query itself raises.
C12_PersistedBeforeStart ==
    /\ [](/\ DOMAIN tasks = Triggered
          /\ \A id \in DOMAIN tasks :
                (tasks[id].pc # "start" /\ ~tasks[id].job_error) => tasks[id].bound)
    /\ [][/\ \A id \in DOMAIN tasks' \ DOMAIN tasks :
                /\ id \in Triggered'
                /\ reports'[id].status = "Running"
                /\ tasks'[id].pc = "start"
          /\ \A id \in DOMAIN tasks :
                /\ id \in DOMAIN tasks'
                /\ tasks[id].pc # "start" => tasks'[id].pc # "start"]_vars

\* the second job has just been triggered, after the first one's task has
\* found its record and ended
C12_Witness ==
    \E a, b \in Triggered :
        /\ tasks[a].pc = "done" /\ tasks[a].bound
        /\ tasks[b].pc = "start"
        /\ reports[b].status = "Running"

\* what belongs to one job: its record, its task's locals and its file
JobView(report_id) ==
    <<reports[report_id], tasks[report_id], files[csv_file_path(report_id)]>>

\* C13: jobs run independently under every interleaving of their tasks:
\* different jobs have different ids and different artifact files; no step
\* changes the record, the task or the file of more than one job, so neither
\* the progress nor the failure of a job touches another job; and a job's
\* outcome is fixed by its own run alone: it is Failed only if its own task
\* raised, and if its task ended without raising it is Complete with exactly
\* the rows computed from the dataset and the stores its own run skipped.
C13_JobsIndependent ==
    /\ [](/\ \A a, b \in Triggered :
                a # b => csv_file_path(a) # csv_file_path(b)
          /\ \A id \in DOMAIN tasks :
                /\ reports[id].status = "Failed" => tasks[id].job_error
                /\ reports[id].status = "Complete" => ~tasks[id].job_error
                /\ (tasks[id].pc = "done" /\ ~tasks[id].job_error) =>
                      /\ reports[id].status = "Complete"
                      /\ reports[id].file_path = csv_file_path(id)
                      /\ files[csv_file_path(id)].rows =
                            ReportData(Listed(store_ids), tasks[id].skipped,
                                       get_max_timestamp))
    /\ [][\A a, b \in Triggered :
            a # b => ~(JobView(a)' # JobView(a) /\ JobView(b)' # JobView(b))]_vars

\* one job's task has raised while writing its file and is in the handler,
\* while the other job's task is in the middle of writing its own file
C13_Witness ==
    \E a, b \in Triggered :
        /\ tasks[a].pc = "except" /\ tasks[a].job_error
        /\ files[csv_file_path(a)].exists /\ ~files[csv_file_path(a)].open
        /\ tasks[b].pc = "write"
        /\ files[csv_file_path(b)].exists /\ files[csv_file_path(b)].open

\* C14: a query for an id trigger_report never returned gets the not-found
\* outcome (HTTP 404), which no query of a stored job gets, whether the job
\* is Running, Complete or Failed; and job records are created by
\* trigger_report only, never by a query.
C14_NotFoundIsDistinct ==
    /\ [](/\ \A id \in ReportIds \ Triggered :
                get_report(id) = [report_id |-> id,
                                  outcome |-> "404 Report not found"]
          /\ \A id \in Triggered, unknown \in ReportIds \ Triggered :
                /\ get_report(id).outcome # get_report(unknown).outcome
                /\ reports[id].status = "Running" =>
                      get_report(id).outcome = "Running"
                /\ reports[id].status = "Failed" =>
                      get_report(id).outcome = "500 Report generation failed")
    /\ [][Triggered' # Triggered => TriggerReport]_vars

\* one job is stored Failed and one id has never been returned
C14_Witness ==
    \E id \in Triggered, unknown \in ReportIds \ Triggered :
        /\ reports[id].status = "Failed"
        /\ get_report(unknown).outcome = "404 Report not found"

\* C15: no double counting: the uptime plus the downtime returned for a range
\* never exceeds the length of the range, also when an overnight window
\* overlaps the next day's window; so in a row the last hour's two figures sum
\* to at most 60.00 minutes, the last day's to at most 24.00 hours and the
\* last week's to at most 168.00 hours.
C15_NoDoubleCounting ==
    /\ Interpolated =>
          metrics.uptime + metrics.downtime <= metrics.end_time - metrics.start_time
    /\ Calculated =>
          /\ metrics.row.uptime_last_hour + metrics.row.downtime_last_hour <= 6000
          /\ metrics.row.uptime_last_day + metrics.row.downtime_last_day <= 2400
          /\ metrics.row.uptime_last_week + metrics.row.downtime_last_week <= 16800

====
